---- MODULE Spec2Model ----
(***************************************************************************)
(* trmnl-wthr-svr: the poll scheduler (ServerCmd.Run, src/server.go) and   *)
(* one update cycle (Update / Data / Latest / Historical, src/weather.go). *)
(*                                                                         *)
(* Time is discrete: one unit is half a second, so time.Second is two      *)
(* units.  Every timer is a countdown and every observer clock saturates   *)
(* at the largest value it is compared with, so the model runs forever     *)
(* with a finite state space.  Texts (error messages, response bodies) are *)
(* sequences of one-character strings.                                     *)
(*                                                                         *)
(* Spec and LiveSpec follow Run and leave the contents of the source's     *)
(* answers open.  LatestSpec follows Latest on an answer with its devices' *)
(* data, HistoricalSpec follows Historical on a series of samples up to    *)
(* the POST of the payload; both start inside a cycle of Spec.             *)
(***************************************************************************)
EXTENDS Integers, Sequences, FiniteSets, TLC

\* ------------------------------------------------------------------ bounds

\* Largest configured poll interval, in time units.
MaxInterval == 3

\* The observers cyclesStarted and ticksConsumed stop counting here.
MaxCount == 3

\* Most samples in a historical series.
MaxSamples == 3

\* Most devices in the source's answer to the devices request.
MaxDevices == 2

\* ------------------------------------------------------- program constants

\* time.Second, in time units.
Second == 2

\* io.LimitReader(resp.Body, 1024)
BodyLimit == 1024

\* http.StatusOK
StatusOK == 200

\* time.Unix(timestampMs/1000, 0)
MsPerSecond == 1000

\* The layout "2006-01-02 15:00" keeps the date and the hour of a time: the
\* seconds of one hour share a key.
SecondsPerHour == 3600

\* (timestampMs / 3600000) * 3600000
MsPerHour == 3600000

\* ------------------------------------------------------------------- texts

Min(a, b) == IF a < b THEN a ELSE b

Digit(d) ==
    CASE d = 0 -> "0" [] d = 1 -> "1" [] d = 2 -> "2" [] d = 3 -> "3"
      [] d = 4 -> "4" [] d = 5 -> "5" [] d = 6 -> "6" [] d = 7 -> "7"
      [] d = 8 -> "8" [] d = 9 -> "9"

\* fmt's %d of a non-negative integer.
RECURSIVE Itoa(_)
Itoa(n) == IF n < 10 THEN << Digit(n) >> ELSE Itoa(n \div 10) \o << Digit(n % 10) >>

\* strings.Contains(s, sub)
Contains(s, sub) ==
    \E i \in 1..(Len(s) - Len(sub) + 1) : SubSeq(s, i, i + Len(sub) - 1) = sub

\* io.ReadAll(io.LimitReader(body, n)): the first n bytes of the body.
LimitRead(body, n) == SubSeq(body, 1, Min(Len(body), n))

RateLimitMarker == << "4", "2", "9" >>

UnexpectedCodeText ==
    << "u", "n", "e", "x", "p", "e", "c", "t", "e", "d", " ", "r", "e", "s", "p", "o",
       "n", "s", "e", " ", "c", "o", "d", "e", ":", " " >>

JsonSepText == << ",", " ", "j", "s", "o", "n", ":", " " >>

ZeroDevicesText ==
    << "r", "e", "c", "e", "i", "v", "e", "d", " ", "z", "e", "r", "o", " ", "d", "e",
       "v", "i", "c", "e", " ", "r", "e", "c", "o", "r", "d", "s" >>

NoDeviceText ==
    << "n", "o", " ", "d", "e", "v", "i", "c", "e", " ", "d", "a", "t", "a", " ", "f",
       "o", "u", "n", "d", " ", "f", "o", "r", " ", "d", "e", "v", "i", "c", "e", " ",
       "M", "A", "C", ":", " " >>

MarshalText ==
    << "e", "r", "r", "o", "r", " ", "m", "a", "r", "s", "h", "a", "l", "i", "n", "g",
       " ", "w", "e", "b", "h", "o", "o", "k", " ", "d", "a", "t", "a", ":", " " >>

\* encoding/json's UnsupportedValueError for a non-finite float64.
UnsupportedValueText ==
    << "j", "s", "o", "n", ":", " ", "u", "n", "s", "u", "p", "p", "o", "r", "t", "e",
       "d", " ", "v", "a", "l", "u", "e", ":", " ", "+", "I", "n", "f" >>

SendText ==
    << "e", "r", "r", "o", "r", " ", "s", "e", "n", "d", "i", "n", "g", " ", "w", "e",
       "b", "h", "o", "o", "k", " ", "r", "e", "q", "u", "e", "s", "t", ":", " " >>

StatusText ==
    << "w", "e", "b", "h", "o", "o", "k", " ", "r", "e", "q", "u", "e", "s", "t", " ",
       "f", "a", "i", "l", "e", "d", " ", "w", "i", "t", "h", " ", "s", "t", "a", "t",
       "u", "s", " " >>

ColonText == << ":", " " >>

\* ----------------------------------------------------------------- numbers

\* Go's a / b on integers, b > 0: the quotient truncated toward zero.
Quo(a, b) == IF a >= 0 THEN a \div b ELSE -((-a) \div b)

\* A float64 is a whole number of tenths (t10), an infinity or NaN.  Sums and
\* quotients are exact: the rounding error of float64 arithmetic is left out.
Float(t10) == [ kind |-> "finite", t10 |-> t10 ]

PosInf == [ kind |-> "+Inf", t10 |-> 0 ]

NegInf == [ kind |-> "-Inf", t10 |-> 0 ]

NaN == [ kind |-> "NaN", t10 |-> 0 ]

\* a + b on float64
FAdd(a, b) ==
    IF a.kind = "NaN" \/ b.kind = "NaN" THEN NaN
    ELSE IF a.kind = "finite" /\ b.kind = "finite" THEN Float(a.t10 + b.t10)
    ELSE IF a.kind = "finite" THEN b
    ELSE IF b.kind = "finite" \/ a.kind = b.kind THEN a
    ELSE NaN

\* math.Round(n / d), d > 0: the nearest integer, halves away from zero.
Round(n, d) ==
    IF n >= 0 THEN (2 * n + d) \div (2 * d) ELSE -((2 * (-n) + d) \div (2 * d))

\* ------------------------------------------------------------------ values

\* A value decoded into interface{}: its dynamic type with the number (in
\* tenths for a float64) or the text it holds.
Float64Value(t10) == [ type |-> "float64", num |-> t10, text |-> << >> ]

Int64Value(n) == [ type |-> "int64", num |-> n, text |-> << >> ]

IntValue(n) == [ type |-> "int", num |-> n, text |-> << >> ]

NumberValue(text) == [ type |-> "json.Number", num |-> 0, text |-> text ]

StringValue(text) == [ type |-> "string", num |-> 0, text |-> text ]

BoolValue == [ type |-> "bool", num |-> 0, text |-> << >> ]

DigitChars == { "0", "1", "2", "3", "4", "5", "6", "7", "8", "9" }

DigitValue(c) == CHOOSE d \in 0..9 : Digit(d) = c

AllDigits(s) == \A i \in 1..Len(s) : s[i] \in DigitChars

\* The number a text of decimal digits spells (0 for the empty text).
RECURSIVE Digits(_)
Digits(s) ==
    IF Len(s) = 0 THEN 0
    ELSE 10 * Digits(SubSeq(s, 1, Len(s) - 1)) + DigitValue(s[Len(s)])

\* unicode lower case of the letters ParseFloat looks for
Lower(c) ==
    CASE c = "I" -> "i" [] c = "N" -> "n" [] c = "F" -> "f" [] c = "A" -> "a"
      [] c = "T" -> "t" [] c = "Y" -> "y" [] OTHER -> c

\* strconv.ParseInt(v, 10, 64): an optional sign and decimal digits (no text
\* of the model is long enough to leave the range of int64).
ParseInt(text) ==
    LET signed == Len(text) > 0 /\ text[1] \in { "+", "-" }
        body == IF signed THEN Tail(text) ELSE text
    IN IF Len(body) > 0 /\ AllDigits(body)
         THEN [ ok |-> TRUE,
                v |-> IF text[1] = "-" THEN -Digits(body) ELSE Digits(body) ]
         ELSE [ ok |-> FALSE, v |-> 0 ]

\* strconv.ParseFloat(t, 64): an optional sign and a decimal mantissa with an
\* optional point, or a spelling of infinity or NaN in any case.  A text with
\* an exponent, a hexadecimal mantissa, underscores or more than one digit
\* behind the point is no input of the model.
ParseFloat(text) ==
    LET signed == Len(text) > 0 /\ text[1] \in { "+", "-" }
        neg == Len(text) > 0 /\ text[1] = "-"
        body == IF signed THEN Tail(text) ELSE text
        low == [ i \in 1..Len(body) |-> Lower(body[i]) ]
        dots == { i \in 1..Len(body) : body[i] = "." }
        dot == IF dots = { } THEN Len(body) + 1
               ELSE CHOOSE i \in dots : \A j \in dots : i <= j
        whole == SubSeq(body, 1, dot - 1)
        frac == SubSeq(body, dot + 1, Len(body))
        t10 == 10 * Digits(whole) + Digits(frac)
    IN IF low \in { << "i", "n", "f" >>, << "i", "n", "f", "i", "n", "i", "t", "y" >> }
         THEN [ ok |-> TRUE, v |-> IF neg THEN NegInf ELSE PosInf ]
       ELSE IF ~signed /\ low = << "n", "a", "n" >>
         THEN [ ok |-> TRUE, v |-> NaN ]
       ELSE IF Len(whole) + Len(frac) > 0 /\ AllDigits(whole) /\ AllDigits(frac)
               /\ Len(frac) <= 1
         THEN [ ok |-> TRUE, v |-> Float(IF neg THEN -t10 ELSE t10) ]
       ELSE [ ok |-> FALSE, v |-> Float(0) ]

\* ------------------------------------------------------------------ inputs

\* Device MAC addresses: the configured c.Device and those the source lists.
Macs == { << "A", "A" >>, << "4", "2", "9" >> }

\* What a failed transport reports (the text names the URL that was called).
TransportErrs == { << "E", "O", "F" >>, << "k", "e", "y", "=", "4", "2", "9" >> }

\* Response bodies short enough to be kept whole.
ShortBodies == { << >>, << "4", "2", "9" >> }

\* A response body two bytes longer than the excerpt limit whose last three
\* bytes spell the marker: the excerpt ends in "4".
LongBody ==
    [ i \in 1..(BodyLimit + 2) |->
        IF i = BodyLimit THEN "4"
        ELSE IF i = BodyLimit + 1 THEN "2"
        ELSE IF i = BodyLimit + 2 THEN "9"
        ELSE "x" ]

WebhookBodies == ShortBodies \cup { LongBody }

\* Status codes the source answers with.
SourceStatuses == { 200, 429, 500 }

\* Status codes the webhook answers with.
WebhookStatuses == { 101, 200, 299, 300, 429, 503 }

\* The device lists the source answers with (the MAC of each device).
DeviceLists ==
    { << >> } \cup { << m >> : m \in Macs } \cup { << m, n >> : m \in Macs, n \in Macs }

\* The sequences over S of at most n elements.
SeqsUpTo(S, n) == UNION { [ 1..k -> S ] : k \in 0..n }

\* MAC addresses the source lists: the configured ones and one that differs
\* from the first only in the case of its letters.
DeviceMacs == Macs \cup { << "a", "a" >> }

\* r.LastDataFields of a device: wind direction only; temperature only; the
\* five fields Latest asks for and wind direction; three fields with a
\* temperature sent as text.
LastDataSets ==
    { [ winddir |-> Float64Value(1800) ],
      [ tempf |-> Float64Value(700) ],
      [ tempf |-> Float64Value(721), feelsLike |-> Float64Value(715),
        humidity |-> Float64Value(400), dailyrainin |-> Float64Value(0),
        dateutc |-> Float64Value(10000), winddir |-> Float64Value(900) ],
      [ tempf |-> StringValue(<< "7", "0", ".", "1" >>),
        humidity |-> Float64Value(550), winddir |-> Float64Value(1800) ] }

\* What ambient.Device can answer, with the devices' data: devices[i] is the
\* Macaddress and lastData[i] the LastDataFields of results.DeviceRecord[i].
LatestInputs ==
    { [ ok |-> FALSE, text |-> t, code |-> 0, json |-> << >>, devices |-> << >>,
        lastData |-> << >> ] : t \in TransportErrs }
    \cup
    UNION { { [ ok |-> TRUE, text |-> << >>, code |-> c, json |-> << >>,
                devices |-> [ i \in 1..Len(r) |-> r[i][1] ],
                lastData |-> [ i \in 1..Len(r) |-> r[i][2] ] ] :
              r \in SeqsUpTo(DeviceMacs \X LastDataSets, MaxDevices) } :
            c \in SourceStatuses }

\* One record of results.RecordFields.
Sample(t, d) == [ tempf |-> t, dateutc |-> d ]

\* Samples with both values readable: 70.0, 72 and "70.1" in the hour that
\* starts at 0 ms (at 0, 1000 and 3599999 ms, in every type Historical reads),
\* "-0.1" in the next hour, 50.0 and 40.0 in the hour that ends at 0 ms (at
\* -1000 and -3600000 ms), 60.0 one millisecond before 0, and "Inf".
ValidSamples ==
    { Sample(Float64Value(700), Float64Value(0)),
      Sample(IntValue(72), Int64Value(1000)),
      Sample(StringValue(<< "7", "0", ".", "1" >>),
             StringValue(<< "3", "5", "9", "9", "9", "9", "9" >>)),
      Sample(NumberValue(<< "-", "0", ".", "1" >>),
             NumberValue(<< "3", "6", "0", "0", "0", "0", "0" >>)),
      Sample(Float64Value(500), Float64Value(-10000)),
      Sample(Float64Value(400), Float64Value(-36000000)),
      Sample(Float64Value(600), Float64Value(-10)),
      Sample(StringValue(<< "I", "n", "f" >>), Float64Value(72000000)) }

\* Samples Historical cannot read: no tempf, no dateutc, a temperature that is
\* no number, a timestamp that is no integer, a timestamp that is a boolean.
MalformedSamples ==
    { [ dateutc |-> Float64Value(0) ],
      [ tempf |-> Float64Value(700) ],
      Sample(StringValue(<< "x" >>), Float64Value(72000000)),
      Sample(Float64Value(700), StringValue(<< "1", ".", "5" >>)),
      Sample(Float64Value(700), BoolValue) }

\* A sample whose values are numbers held in a type the switches of
\* Historical have no case for: the temperature 72 as an int64, at 1000 ms.
UnreadSamples ==
    { Sample(Int64Value(72), Int64Value(1000)) }

Samples == ValidSamples \cup MalformedSamples \cup UnreadSamples

\* results.RecordFields, as the source sends it
SeriesInputs == SeqsUpTo(Samples, MaxSamples)

\* ------------------------------------------------------------------ errors

\* An error is its text; kind names the statement that made it.
Nil == [ kind |-> "nil", text |-> << >> ]

TransportError(kind, text) == [ kind |-> kind, text |-> text ]

\* fmt.Errorf("unexpected response code: %d, json: %s", code, json)
UnexpectedCodeError(code, json) ==
    [ kind |-> "source", text |-> UnexpectedCodeText \o Itoa(code) \o JsonSepText \o json ]

\* fmt.Errorf("received zero device records")
ZeroDevicesError == [ kind |-> "notfound", text |-> ZeroDevicesText ]

\* fmt.Errorf("no device data found for device MAC: %s", mac)
NoDeviceError(m) == [ kind |-> "notfound", text |-> NoDeviceText \o m ]

\* fmt.Errorf("error marshaling webhook data: %w", err)
MarshalError == [ kind |-> "marshal", text |-> MarshalText \o UnsupportedValueText ]

\* fmt.Errorf("error sending webhook request: %w", err)
SendError(text) == [ kind |-> "webhook", text |-> SendText \o text ]

\* Mutant: the whole response body is read into the error.
WebhookStatusError_WholeBody(code, body) ==
    [ kind |-> "webhook", text |-> StatusText \o Itoa(code) \o ColonText \o body ]

\* fmt.Errorf("webhook request failed with status %d: %s", resp.StatusCode, body)
WebhookStatusError(code, body) ==
    [ kind |-> "webhook",
      text |-> StatusText \o Itoa(code) \o ColonText \o LimitRead(body, BodyLimit) ]

\* isRateLimited(err): the error's text contains "429".
isRateLimited(e) == e /= Nil /\ Contains(e.text, RateLimitMarker)

\* ------------------------------------------------------------------- state

VARIABLES
    interval,        \* c.Interval, in time units
    mac,             \* c.Device
    asynctimerchan,  \* the build keeps Go's pre-1.23 timer channels
    pc,              \* where Run is: init, latest, sleep, historical, post,
                     \* returned, select, stopped
    cycle,           \* which call of Update runs or ran last: startup, ticked
    err,             \* what Update returned, until Run has handled it
    ret,             \* what Run returned: none, nil, err
    untilTick,       \* time until the ticker fires next
    tickPending,     \* ticker.C holds a tick
    sigPending,      \* sigCh holds a signal
    sleepLeft,       \* what is left of time.Sleep(time.Second)
    \* observers of the cycle in progress or just returned
    reqs,            \* the requests issued to the source, in order
    latestRes,       \* none, ok, fail
    histRes,         \* none, ok, fail
    posts,           \* webhook POSTs issued
    postResp,        \* the webhook's answer to the POST
    saw429,          \* the source or the webhook answered with status 429
    \* observers of the run
    handled,         \* how Run took the result of the last cycle, until the
                     \* next one starts: none, ok, ratelimited, error, fatal
    cyclesStarted,   \* calls of Update, up to MaxCount
    ticksConsumed,   \* receives from ticker.C, up to MaxCount
    sigWhen,         \* when the first signal was sent to the process: none,
                     \* cycle (Update was running), between
    sinceLatestRet,  \* time Data has slept since Latest returned, up to Second
    sinceReturn,     \* time Run has waited since Update returned, up to interval
    inFlight,        \* calls of Update that have not returned
    sinceRequest,    \* time since the last request was sent to the source, up
                     \* to Second (Second before the first request)
    \* the data of one cycle (Spec leaves the contents of the answers open
    \* and keeps these as they start)
    latestResp,      \* Latest: results of ambient.Device
    filteredData,    \* Latest: the map it returns
    series,          \* Historical: results.RecordFields
    idx,             \* Historical: records the first loop has taken
    hourlyBuckets,   \* Historical: hour key -> hourlyBucket
    bucketedRecords, \* Historical: the records it returns
    payload          \* Update: the WeatherData sent to the webhook

progVars == << interval, mac, asynctimerchan, pc, cycle, err, ret, untilTick,
               tickPending, sigPending, sleepLeft >>

cycleObs == << reqs, latestRes, histRes, posts, postResp, saw429 >>

runObs == << handled, cyclesStarted, ticksConsumed, sigWhen, sinceLatestRet,
            sinceReturn, inFlight, sinceRequest >>

dataVars == << latestResp, filteredData, series, idx, hourlyBuckets,
              bucketedRecords, payload >>

vars == << progVars, cycleObs, runObs, dataVars >>

NoResp == [ ok |-> FALSE, text |-> << >>, code |-> 0, body |-> << >> ]

\* ambient.Device has not answered.
NoLatestResp ==
    [ ok |-> FALSE, text |-> << >>, code |-> 0, json |-> << >>, devices |-> << >>,
      lastData |-> << >> ]

CyclePcs == { "latest", "sleep", "historical", "post" }

\* A signal has been sent to the process.
sigDelivered == sigWhen /= "none"

\* ------------------------------------------------------- the environment

\* What ambient.Device can answer: a transport failure, or a status code with
\* the raw JSON and the devices decoded from it.
LatestResponses ==
    { [ ok |-> FALSE, text |-> t, code |-> 0, json |-> << >>, devices |-> << >> ] :
        t \in TransportErrs }
    \cup
    { [ ok |-> TRUE, text |-> << >>, code |-> c, json |-> j, devices |-> d ] :
        c \in SourceStatuses, j \in ShortBodies, d \in DeviceLists }

\* What ambient.DeviceMac can answer; finite says that every hourly average of
\* the records is a finite number.
HistoricalResponses ==
    { [ ok |-> FALSE, text |-> t, code |-> 0, json |-> << >>, finite |-> TRUE ] :
        t \in TransportErrs }
    \cup
    { [ ok |-> TRUE, text |-> << >>, code |-> c, json |-> j, finite |-> f ] :
        c \in SourceStatuses, j \in ShortBodies, f \in BOOLEAN }

\* What http.Post can answer; body is what reading resp.Body yields, up to its
\* end or to a read error (which Update ignores).
PostResponses ==
    { [ ok |-> FALSE, text |-> t, code |-> 0, body |-> << >> ] : t \in TransportErrs }
    \cup
    { [ ok |-> TRUE, text |-> << >>, code |-> c, body |-> b ] :
        c \in WebhookStatuses, b \in WebhookBodies }

\* ------------------------------------------------------------ weather.go

\* Mutant: the MAC is compared as strings.EqualFold does.
Match_EqualFold(devices, m) ==
    LET fold(a) == [ i \in 1..Len(a) |-> Lower(a[i]) ]
        hits == { i \in 1..Len(devices) : fold(devices[i]) = fold(m) }
    IN IF hits = { } THEN 0 ELSE CHOOSE i \in hits : \A j \in hits : i <= j

\* Latest, the loop over results.DeviceRecord: the place of the first device
\* with mac == r.Macaddress, 0 when the loop ends without one.
Match(devices, m) ==
    LET hits == { i \in 1..Len(devices) : devices[i] = m }
    IN IF hits = { } THEN 0 ELSE CHOOSE i \in hits : \A j \in hits : i <= j

\* Latest: the error it returns (Nil when it returns the device's data).
Latest(resp, m) ==
    IF ~resp.ok THEN TransportError("source", resp.text)
    ELSE IF resp.code /= StatusOK THEN UnexpectedCodeError(resp.code, resp.json)
    ELSE IF Len(resp.devices) = 0 THEN ZeroDevicesError
    ELSE IF Match(resp.devices, m) /= 0 THEN Nil
    ELSE NoDeviceError(m)

\* Historical: the error it returns (Nil when it returns the hourly records).
Historical(resp) ==
    IF ~resp.ok THEN TransportError("source", resp.text)
    ELSE IF resp.code /= StatusOK THEN UnexpectedCodeError(resp.code, resp.json)
    ELSE Nil

\* encoder.Encode(data): json refuses a float that is not finite.
Encode(finite) == IF finite THEN Nil ELSE MarshalError

\* Latest: the fields it copies.
fields == << "tempf", "feelsLike", "humidity", "dailyrainin", "dateutc" >>

\* Mutant: Latest returns the device's data as it came.
Project_CopiesAll(lastData) == lastData

\* Latest, the inner loop: the fields of the list that the device's data has,
\* with their values.
Project(lastData) ==
    [ f \in { fields[i] : i \in 1..Len(fields) } \cap DOMAIN lastData |-> lastData[f] ]

\* Latest returns no map with an error.
NoData == << >>

\* Latest: the map it returns, made from the first device whose Macaddress
\* is m.
LatestData(resp, m) ==
    IF Latest(resp, m) /= Nil THEN NoData
    ELSE Project(resp.lastData[Match(resp.devices, m)])

\* Historical, the switch on dateValue: whether the sample goes on, and
\* timestampMs.
timestampMs(dateValue) ==
    CASE dateValue.type = "float64" -> [ ok |-> TRUE, v |-> Quo(dateValue.num, 10) ]
      [] dateValue.type = "int64" -> [ ok |-> TRUE, v |-> dateValue.num ]
      [] dateValue.type = "json.Number" -> ParseInt(dateValue.text)
      [] dateValue.type = "string" -> ParseInt(dateValue.text)
      [] OTHER -> [ ok |-> FALSE, v |-> 0 ]

\* time.Unix(timestampMs/1000, 0).UTC().Format("2006-01-02 15:00"): the hour
\* of the calendar the second lies in, counted from 1970-01-01 00:00.
hourKey(ts) == Quo(ts, MsPerSecond) \div SecondsPerHour

\* Historical, the switch on tempValue: whether the sample goes on, and tempf.
tempf(tempValue) ==
    CASE tempValue.type = "float64" -> [ ok |-> TRUE, v |-> Float(tempValue.num) ]
      [] tempValue.type = "int" -> [ ok |-> TRUE, v |-> Float(10 * tempValue.num) ]
      [] tempValue.type = "json.Number" -> ParseFloat(tempValue.text)
      [] tempValue.type = "string" -> ParseFloat(tempValue.text)
      [] OTHER -> [ ok |-> FALSE, v |-> Float(0) ]

\* hourStartMs := (timestampMs / 3600000) * 3600000
hourStartMs(ts) == Quo(ts, MsPerHour) * MsPerHour

\* make(map[string]*hourlyBucket, estimatedHours)
NoBuckets == << >>

\* Mutant: the bucket of the hour is made before the temperature is read.
Accumulate_BucketFirst(buckets, record) ==
    IF "tempf" \notin DOMAIN record \/ "dateutc" \notin DOMAIN record THEN buckets
    ELSE LET ts == timestampMs(record.dateutc)
             t == tempf(record.tempf)
         IN IF ~ts.ok THEN buckets
            ELSE LET k == hourKey(ts.v)
                     bucket == IF k \in DOMAIN buckets THEN buckets[k]
                               ELSE [ Sum |-> Float(0), Count |-> 0,
                                      First |-> hourStartMs(ts.v) ]
                     added == IF t.ok
                                THEN [ Sum |-> FAdd(bucket.Sum, t.v),
                                       Count |-> bucket.Count + 1,
                                       First |-> bucket.First ]
                                ELSE bucket
                 IN [ h \in DOMAIN buckets \cup { k } |->
                        IF h = k THEN added ELSE buckets[h] ]

\* Mutant: a new bucket is made holding the sample, which is then added to it.
Accumulate_CountsFirstTwice(buckets, record) ==
    IF "tempf" \notin DOMAIN record \/ "dateutc" \notin DOMAIN record THEN buckets
    ELSE LET ts == timestampMs(record.dateutc)
             t == tempf(record.tempf)
         IN IF ~ts.ok \/ ~t.ok THEN buckets
            ELSE LET k == hourKey(ts.v)
                     bucket == IF k \in DOMAIN buckets THEN buckets[k]
                               ELSE [ Sum |-> t.v, Count |-> 1,
                                      First |-> hourStartMs(ts.v) ]
                     added == [ Sum |-> FAdd(bucket.Sum, t.v),
                                Count |-> bucket.Count + 1,
                                First |-> bucket.First ]
                 IN [ h \in DOMAIN buckets \cup { k } |->
                        IF h = k THEN added ELSE buckets[h] ]

\* Historical, one pass of the first loop: the buckets after the record.
Accumulate(buckets, record) ==
    IF "tempf" \notin DOMAIN record \/ "dateutc" \notin DOMAIN record THEN buckets
    ELSE LET ts == timestampMs(record.dateutc)
             t == tempf(record.tempf)
         IN IF ~ts.ok \/ ~t.ok THEN buckets
            ELSE LET k == hourKey(ts.v)
                     bucket == IF k \in DOMAIN buckets THEN buckets[k]
                               ELSE [ Sum |-> Float(0), Count |-> 0,
                                      First |-> hourStartMs(ts.v) ]
                     added == [ Sum |-> FAdd(bucket.Sum, t.v),
                                Count |-> bucket.Count + 1,
                                First |-> bucket.First ]
                 IN [ h \in DOMAIN buckets \cup { k } |->
                        IF h = k THEN added ELSE buckets[h] ]

\* Historical, the first loop over the whole of records.
RECURSIVE Buckets(_)
Buckets(records) ==
    IF Len(records) = 0 THEN NoBuckets
    ELSE Accumulate(Buckets(SubSeq(records, 1, Len(records) - 1)),
                    records[Len(records)])

\* avgTemp := math.Round((bucket.Sum/float64(bucket.Count))*10) / 10
avgTemp(bucket) ==
    IF bucket.Sum.kind = "finite" THEN Float(Round(bucket.Sum.t10, bucket.Count))
    ELSE bucket.Sum

\* The orders in which range can visit the keys of the map.
RangeOrders(buckets) ==
    { o \in [ 1..Cardinality(DOMAIN buckets) -> DOMAIN buckets ] :
        \A i, j \in DOMAIN o : i /= j => o[i] /= o[j] }

\* Historical, the second loop: one record for each bucket with Count > 0, in
\* the order range visits them.
Records(buckets, order) ==
    LET held == SelectSeq(order, LAMBDA k : buckets[k].Count > 0)
    IN [ i \in 1..Len(held) |->
           [ tempf |-> avgTemp(buckets[held[i]]), dateutc |-> buckets[held[i]].First ] ]

\* sort.Slice on a short slice is an insertion sort: a record moves toward
\* the front while its dateutc is less than the one before it.
RECURSIVE Insert(_, _)
Insert(sorted, r) ==
    IF Len(sorted) = 0 \/ ~(r.dateutc < sorted[Len(sorted)].dateutc)
      THEN Append(sorted, r)
      ELSE Append(Insert(SubSeq(sorted, 1, Len(sorted) - 1), r), sorted[Len(sorted)])

\* sort.Slice(bucketedRecords, less by dateutc)
RECURSIVE SortSlice(_)
SortSlice(recs) ==
    IF Len(recs) = 0 THEN << >>
    ELSE Insert(SortSlice(SubSeq(recs, 1, Len(recs) - 1)), recs[Len(recs)])

\* What Historical can return for the buckets: range's order is not fixed.
Sorted(buckets) ==
    { SortSlice(Records(buckets, o)) : o \in RangeOrders(buckets) }

\* Every tempf of the records is a number json can write.
Finite(recs) == \A i \in 1..Len(recs) : recs[i].tempf.kind = "finite"

\* No body has been handed to http.Post.
NoPayload == [ sent |-> FALSE, latest |-> << >>, historical |-> << >> ]

\* WeatherData{Latest: latest, Historical: historical}, encoded
WeatherData(latest, historical) ==
    [ sent |-> TRUE, latest |-> latest, historical |-> historical ]

\* Mutant: status 300 passes for a success.
PostResult_OffByOne(resp) ==
    IF ~resp.ok THEN SendError(resp.text)
    ELSE IF resp.code < 200 \/ resp.code > 300 THEN WebhookStatusError(resp.code, resp.body)
    ELSE Nil

\* Update, from http.Post's return on: the error it returns.
PostResult(resp) ==
    IF ~resp.ok THEN SendError(resp.text)
    ELSE IF resp.code < 200 \/ resp.code >= 300 THEN WebhookStatusError(resp.code, resp.body)
    ELSE Nil

\* -------------------------------------------------------------------- Init

\* Run after time.NewTicker(c.Interval) and signal.Notify(sigCh, ...): the
\* ticker is armed, both channels are empty, Update has not been called.
Init ==
    /\ interval \in 1..MaxInterval
    /\ mac \in Macs
    /\ asynctimerchan \in BOOLEAN
    /\ pc = "init"
    /\ cycle = "startup"
    /\ err = Nil
    /\ ret = "none"
    /\ untilTick = interval
    /\ tickPending = FALSE
    /\ sigPending = FALSE
    /\ sleepLeft = 0
    /\ reqs = << >>
    /\ latestRes = "none"
    /\ histRes = "none"
    /\ posts = 0
    /\ postResp = NoResp
    /\ saw429 = FALSE
    /\ handled = "none"
    /\ cyclesStarted = 0
    /\ ticksConsumed = 0
    /\ sigWhen = "none"
    /\ sinceLatestRet = 0
    /\ sinceReturn = 0
    /\ inFlight = 0
    /\ sinceRequest = Second
    /\ latestResp = NoLatestResp
    /\ filteredData = NoData
    /\ series = << >>
    /\ idx = 0
    /\ hourlyBuckets = NoBuckets
    /\ bucketedRecords = << >>
    /\ payload = NoPayload

\* ------------------------------------------------------------- one cycle

\* Update is called: Data calls Latest, which sends the devices request.
BeginCycle(kind) ==
    /\ pc' = "latest"
    /\ cycle' = kind
    /\ reqs' = << "latest" >>
    /\ latestRes' = "none"
    /\ histRes' = "none"
    /\ posts' = 0
    /\ postResp' = NoResp
    /\ saw429' = FALSE
    /\ cyclesStarted' = Min(cyclesStarted + 1, MaxCount)
    /\ handled' = "none"
    /\ sinceLatestRet' = 0
    /\ sinceReturn' = 0
    /\ inFlight' = inFlight + 1
    /\ sinceRequest' = 0

\* Update returns e to Run.
Return(e) ==
    /\ pc' = "returned"
    /\ err' = e
    /\ sinceReturn' = 0
    /\ inFlight' = inFlight - 1

\* Mutant: Data goes on after Latest has failed.
LatestReturn_IgnoresError ==
    /\ pc = "latest"
    /\ \E resp \in LatestResponses :
         LET e == Latest(resp, mac) IN
         /\ latestRes' = IF e = Nil THEN "ok" ELSE "fail"
         /\ saw429' = (saw429 \/ (resp.ok /\ resp.code = 429))
         /\ sinceLatestRet' = 0
         /\ pc' = "sleep"
         /\ sleepLeft' = Second
         /\ UNCHANGED << err, sinceReturn, inFlight >>
    /\ UNCHANGED << dataVars, interval, mac, asynctimerchan, sinceRequest, cycle, ret, untilTick, tickPending,
                    sigPending, reqs, histRes, posts, postResp, handled, cyclesStarted,
                    ticksConsumed, sigWhen >>

\* ambient.Device answers; Latest returns, and on success Data sleeps.
LatestReturn ==
    /\ pc = "latest"
    /\ \E resp \in LatestResponses :
         LET e == Latest(resp, mac) IN
         /\ latestRes' = IF e = Nil THEN "ok" ELSE "fail"
         /\ saw429' = (saw429 \/ (resp.ok /\ resp.code = 429))
         /\ sinceLatestRet' = 0
         /\ IF e = Nil
              THEN /\ pc' = "sleep"
                   /\ sleepLeft' = Second
                   /\ UNCHANGED << err, sinceReturn, inFlight >>
              ELSE /\ Return(e)
                   /\ UNCHANGED sleepLeft
    /\ UNCHANGED << dataVars, interval, mac, asynctimerchan, sinceRequest, cycle, ret, untilTick, tickPending,
                    sigPending, reqs, histRes, posts, postResp, handled, cyclesStarted,
                    ticksConsumed, sigWhen >>

\* Mutant: Data does not wait for the sleep to end.
SleepDone_NoSleep ==
    /\ pc = "sleep"
    /\ pc' = "historical"
    /\ reqs' = Append(reqs, "historical")
    /\ sinceRequest' = 0
    /\ UNCHANGED << dataVars, interval, mac, asynctimerchan, cycle, err, ret, untilTick,
                    tickPending, sigPending, sleepLeft, latestRes, histRes, posts,
                    postResp, saw429, handled, cyclesStarted, ticksConsumed,
                    sigWhen, sinceLatestRet, sinceReturn, inFlight >>

\* time.Sleep(time.Second) is over; Historical sends the device-data request.
SleepDone ==
    /\ pc = "sleep"
    /\ sleepLeft = 0
    /\ pc' = "historical"
    /\ reqs' = Append(reqs, "historical")
    /\ sinceRequest' = 0
    /\ UNCHANGED << dataVars, interval, mac, asynctimerchan, cycle, err, ret, untilTick,
                    tickPending, sigPending, sleepLeft, latestRes, histRes, posts,
                    postResp, saw429, handled, cyclesStarted, ticksConsumed,
                    sigWhen, sinceLatestRet, sinceReturn, inFlight >>

\* ambient.DeviceMac answers; Historical and Data return, and on success
\* Update encodes the payload and sends the POST.
HistoricalReturn ==
    /\ pc = "historical"
    /\ \E resp \in HistoricalResponses :
         LET e == Historical(resp)
             m == IF e = Nil THEN Encode(resp.finite) ELSE e
         IN
         /\ histRes' = IF e = Nil THEN "ok" ELSE "fail"
         /\ saw429' = (saw429 \/ (resp.ok /\ resp.code = 429))
         /\ IF m = Nil
              THEN /\ pc' = "post"
                   /\ posts' = posts + 1
                   /\ UNCHANGED << err, sinceReturn, inFlight >>
              ELSE /\ Return(m)
                   /\ UNCHANGED posts
    /\ UNCHANGED << dataVars, interval, mac, asynctimerchan, sinceRequest, cycle, ret, untilTick, tickPending,
                    sigPending, sleepLeft, reqs, latestRes, postResp, handled,
                    cyclesStarted, ticksConsumed, sigWhen, sinceLatestRet >>

\* http.Post answers; Update returns.
PostReturn ==
    /\ pc = "post"
    /\ \E resp \in PostResponses :
         /\ postResp' = resp
         /\ saw429' = (saw429 \/ (resp.ok /\ resp.code = 429))
         /\ Return(PostResult(resp))
    /\ UNCHANGED << dataVars, interval, mac, asynctimerchan, sinceRequest, cycle, ret, untilTick, tickPending,
                    sigPending, sleepLeft, reqs, latestRes, histRes, posts, handled,
                    cyclesStarted, ticksConsumed, sigWhen, sinceLatestRet >>

\* ------------------------------------------------------------ server.go

\* The observers of a cycle are cleared once Run has taken its result.
ClearCycle ==
    /\ reqs' = << >>
    /\ latestRes' = "none"
    /\ histRes' = "none"
    /\ posts' = 0
    /\ postResp' = NoResp
    /\ saw429' = FALSE

\* Run calls Update before it enters the loop.
Start ==
    /\ pc = "init"
    /\ BeginCycle("startup")
    /\ UNCHANGED << dataVars, interval, mac, asynctimerchan, err, ret, untilTick, tickPending,
                    sigPending, sleepLeft, ticksConsumed, sigWhen >>

\* Run takes the result of the first Update: a rate-limited failure is logged,
\* any other failure is returned.
HandleStartup ==
    /\ pc = "returned"
    /\ cycle = "startup"
    /\ IF err = Nil
         THEN /\ pc' = "select"
              /\ handled' = "ok"
              /\ UNCHANGED << err, ret >>
         ELSE IF isRateLimited(err)
         THEN /\ pc' = "select"
              /\ handled' = "ratelimited"
              /\ err' = Nil
              /\ UNCHANGED ret
         ELSE /\ pc' = "stopped"
              /\ handled' = "fatal"
              /\ ret' = "err"
              /\ UNCHANGED err
    /\ ClearCycle
    /\ UNCHANGED << dataVars, interval, mac, asynctimerchan, sinceRequest, cycle, untilTick, tickPending,
                    sigPending, sleepLeft, cyclesStarted, ticksConsumed, sigWhen,
                    sinceLatestRet, sinceReturn, inFlight >>

\* ticker.Reset(c.Interval): the next tick is a full interval away; a tick
\* already in ticker.C stays there only with the pre-1.23 timer channels.
TickerReset ==
    /\ untilTick' = interval
    /\ tickPending' = (asynctimerchan /\ tickPending)

\* Mutant: Run returns the error of an Update made on a tick, as it does for
\* the first Update.
HandleTicked_ReturnsError ==
    /\ pc = "returned"
    /\ cycle = "ticked"
    /\ IF err = Nil
         THEN /\ pc' = "select"
              /\ handled' = "ok"
              /\ UNCHANGED << err, ret, untilTick, tickPending >>
         ELSE IF isRateLimited(err)
         THEN /\ TickerReset
              /\ pc' = "select"
              /\ handled' = "ratelimited"
              /\ err' = Nil
              /\ UNCHANGED ret
         ELSE /\ pc' = "stopped"
              /\ handled' = "fatal"
              /\ ret' = "err"
              /\ UNCHANGED << err, untilTick, tickPending >>
    /\ ClearCycle
    /\ UNCHANGED << dataVars, interval, mac, asynctimerchan, sinceRequest, cycle, sigPending, sleepLeft,
                    cyclesStarted, ticksConsumed, sigWhen, sinceLatestRet,
                    sinceReturn, inFlight >>

\* Mutant: ticker.Reset is called for every failed Update.
HandleTicked_ResetsOnAnyError ==
    /\ pc = "returned"
    /\ cycle = "ticked"
    /\ IF err /= Nil
         THEN /\ TickerReset
              /\ handled' = IF isRateLimited(err) THEN "ratelimited" ELSE "error"
         ELSE /\ handled' = "ok"
              /\ UNCHANGED << untilTick, tickPending >>
    /\ pc' = "select"
    /\ err' = Nil
    /\ ClearCycle
    /\ UNCHANGED << dataVars, interval, mac, asynctimerchan, sinceRequest, cycle, ret, sigPending, sleepLeft,
                    cyclesStarted, ticksConsumed, sigWhen, sinceLatestRet,
                    sinceReturn, inFlight >>

\* Run takes the result of an Update made on a tick: a rate-limited failure
\* resets the ticker, any other failure is logged.
HandleTicked ==
    /\ pc = "returned"
    /\ cycle = "ticked"
    /\ IF err /= Nil /\ isRateLimited(err)
         THEN /\ TickerReset
              /\ handled' = "ratelimited"
         ELSE /\ handled' = IF err = Nil THEN "ok" ELSE "error"
              /\ UNCHANGED << untilTick, tickPending >>
    /\ pc' = "select"
    /\ err' = Nil
    /\ ClearCycle
    /\ UNCHANGED << dataVars, interval, mac, asynctimerchan, sinceRequest, cycle, ret, sigPending, sleepLeft,
                    cyclesStarted, ticksConsumed, sigWhen, sinceLatestRet,
                    sinceReturn, inFlight >>

\* Mutant: the loop calls Update in a goroutine of its own, so a tick is taken
\* while an earlier call has not returned.
TickBranch_Goroutine ==
    /\ pc \in CyclePcs \cup { "select" }
    /\ tickPending
    /\ tickPending' = FALSE
    /\ ticksConsumed' = Min(ticksConsumed + 1, MaxCount)
    /\ BeginCycle("ticked")
    /\ UNCHANGED << dataVars, interval, mac, asynctimerchan, err, ret, untilTick, sigPending,
                    sleepLeft, sigWhen >>

\* Mutant: the loop calls Update without receiving from ticker.C.
TickBranch_NoReceive ==
    /\ pc = "select"
    /\ BeginCycle("ticked")
    /\ UNCHANGED << dataVars, interval, mac, asynctimerchan, err, ret, untilTick, tickPending,
                    sigPending, sleepLeft, ticksConsumed, sigWhen >>

\* select: case <-ticker.C
TickBranch ==
    /\ pc = "select"
    /\ tickPending
    /\ tickPending' = FALSE
    /\ ticksConsumed' = Min(ticksConsumed + 1, MaxCount)
    /\ BeginCycle("ticked")
    /\ UNCHANGED << dataVars, interval, mac, asynctimerchan, err, ret, untilTick, sigPending,
                    sleepLeft, sigWhen >>

\* Mutant: the signal case leaves the select, not the loop.
SigBranch_Break ==
    /\ pc = "select"
    /\ sigPending
    /\ sigPending' = FALSE
    /\ UNCHANGED << dataVars, interval, mac, asynctimerchan, sinceRequest, pc, cycle, err, ret, untilTick,
                    tickPending, sleepLeft, cycleObs, handled, cyclesStarted,
                    ticksConsumed, sigWhen, sinceLatestRet, sinceReturn, inFlight >>

\* select: case sig := <-sigCh
SigBranch ==
    /\ pc = "select"
    /\ sigPending
    /\ sigPending' = FALSE
    /\ pc' = "stopped"
    /\ ret' = "nil"
    /\ UNCHANGED << dataVars, interval, mac, asynctimerchan, sinceRequest, cycle, err, untilTick, tickPending,
                    sleepLeft, cycleObs, handled, cyclesStarted, ticksConsumed,
                    sigWhen, sinceLatestRet, sinceReturn, inFlight >>

\* main: os.Exit(1) when Run returns an error.
ExitCode == IF ret = "err" THEN 1 ELSE 0

\* ------------------------------------------------------- the environment

\* Mutant: sigCh has no buffer, so a signal sent while Run is not waiting in
\* the select is dropped.
Signal_Unbuffered ==
    /\ pc /= "stopped"
    /\ sigPending' = (pc = "select")
    /\ sigWhen' = IF sigWhen /= "none" THEN sigWhen
                  ELSE IF pc \in CyclePcs THEN "cycle" ELSE "between"
    /\ UNCHANGED << dataVars, interval, mac, asynctimerchan, sinceRequest, pc, cycle, err, ret, untilTick,
                    tickPending, sleepLeft, cycleObs, handled, cyclesStarted,
                    ticksConsumed, sinceLatestRet, sinceReturn, inFlight >>

\* SIGINT or SIGTERM is sent to the process: signal.Notify puts it in sigCh,
\* which holds one signal (a second one is dropped).
Signal ==
    /\ pc /= "stopped"
    /\ sigPending' = TRUE
    /\ sigWhen' = IF sigWhen /= "none" THEN sigWhen
                  ELSE IF pc \in CyclePcs THEN "cycle" ELSE "between"
    /\ UNCHANGED << dataVars, interval, mac, asynctimerchan, sinceRequest, pc, cycle, err, ret, untilTick,
                    tickPending, sleepLeft, cycleObs, handled, cyclesStarted,
                    ticksConsumed, sinceLatestRet, sinceReturn, inFlight >>

\* One time unit passes.  The ticker fires when its time is up: the tick goes
\* to ticker.C, which holds one tick (a second one is dropped).
Elapse ==
    /\ pc /= "stopped"
    /\ IF untilTick = 1
         THEN /\ untilTick' = interval
              /\ tickPending' = TRUE
         ELSE /\ untilTick' = untilTick - 1
              /\ UNCHANGED tickPending
    /\ sleepLeft' = IF sleepLeft > 0 THEN sleepLeft - 1 ELSE 0
    /\ sinceLatestRet' = IF pc = "sleep" THEN Min(sinceLatestRet + 1, Second)
                         ELSE sinceLatestRet
    /\ sinceReturn' = IF pc \in { "returned", "select" }
                        THEN Min(sinceReturn + 1, interval)
                        ELSE sinceReturn
    /\ sinceRequest' = Min(sinceRequest + 1, Second)
    /\ UNCHANGED << dataVars, interval, mac, asynctimerchan, pc, cycle, err, ret, sigPending,
                    cycleObs, handled, cyclesStarted, ticksConsumed, sigWhen,
                    inFlight >>

\* ------------------------------------------------------------------- Spec

Next ==
    \/ Start
    \/ LatestReturn
    \/ SleepDone
    \/ HistoricalReturn
    \/ PostReturn
    \/ HandleStartup
    \/ HandleTicked
    \/ TickBranch
    \/ SigBranch
    \/ Signal
    \/ Elapse

Spec == Init /\ [][Next]_vars

\* Every call returns and time passes; select takes a ready case at random, so
\* a signal that is ready again and again is taken.
Progress ==
    \/ Start
    \/ LatestReturn
    \/ SleepDone
    \/ HistoricalReturn
    \/ PostReturn
    \/ HandleStartup
    \/ HandleTicked

LiveSpec ==
    /\ Init
    /\ [][Next]_vars
    /\ WF_vars(Progress)
    /\ WF_vars(Elapse)
    /\ SF_vars(SigBranch)

\* ------------------------------------------------- Latest, with its data

\* Run has called Update and ambient.Device has answered: all that is left of
\* Latest is to read the answer.
LatestInit ==
    /\ interval = 1
    /\ mac \in Macs
    /\ asynctimerchan = FALSE
    /\ pc = "latest"
    /\ cycle = "startup"
    /\ err = Nil
    /\ ret = "none"
    /\ untilTick = 1
    /\ tickPending = FALSE
    /\ sigPending = FALSE
    /\ sleepLeft = 0
    /\ reqs = << "latest" >>
    /\ latestRes = "none"
    /\ histRes = "none"
    /\ posts = 0
    /\ postResp = NoResp
    /\ saw429 = FALSE
    /\ handled = "none"
    /\ cyclesStarted = 1
    /\ ticksConsumed = 0
    /\ sigWhen = "none"
    /\ sinceLatestRet = 0
    /\ sinceReturn = 0
    /\ inFlight = 1
    /\ sinceRequest = 0
    /\ latestResp \in LatestInputs
    /\ filteredData = NoData
    /\ series = << >>
    /\ idx = 0
    /\ hourlyBuckets = NoBuckets
    /\ bucketedRecords = << >>
    /\ payload = NoPayload

\* Latest reads the answer and returns; on success Data sleeps.
LatestReads ==
    /\ pc = "latest"
    /\ LET e == Latest(latestResp, mac) IN
         /\ latestRes' = IF e = Nil THEN "ok" ELSE "fail"
         /\ filteredData' = LatestData(latestResp, mac)
         /\ saw429' = (saw429 \/ (latestResp.ok /\ latestResp.code = 429))
         /\ sinceLatestRet' = 0
         /\ IF e = Nil
              THEN /\ pc' = "sleep"
                   /\ sleepLeft' = Second
                   /\ UNCHANGED << err, sinceReturn, inFlight >>
              ELSE /\ Return(e)
                   /\ UNCHANGED sleepLeft
    /\ UNCHANGED << interval, mac, asynctimerchan, sinceRequest, cycle, ret, untilTick, tickPending,
                    sigPending, reqs, histRes, posts, postResp, handled, cyclesStarted,
                    ticksConsumed, sigWhen, latestResp, series, idx, hourlyBuckets,
                    bucketedRecords, payload >>

LatestNext == LatestReads

LatestSpec == LatestInit /\ [][LatestNext]_vars

\* --------------------------------------------- Historical, with its data

\* The reading Latest has returned in the cycle whose Historical is followed.
SomeReading == [ tempf |-> Float64Value(700) ]

\* Latest has returned a reading, Data has slept and ambient.DeviceMac has
\* answered with status 200: what is left of Historical is to read the series.
HistoricalInit ==
    /\ interval = 1
    /\ mac \in { << "A", "A" >> }
    /\ asynctimerchan = FALSE
    /\ pc = "historical"
    /\ cycle = "startup"
    /\ err = Nil
    /\ ret = "none"
    /\ untilTick = 1
    /\ tickPending = FALSE
    /\ sigPending = FALSE
    /\ sleepLeft = 0
    /\ reqs = << "latest", "historical" >>
    /\ latestRes = "ok"
    /\ histRes = "none"
    /\ posts = 0
    /\ postResp = NoResp
    /\ saw429 = FALSE
    /\ handled = "none"
    /\ cyclesStarted = 1
    /\ ticksConsumed = 0
    /\ sigWhen = "none"
    /\ sinceLatestRet = Second
    /\ sinceReturn = 0
    /\ inFlight = 1
    /\ sinceRequest = 0
    /\ latestResp = NoLatestResp
    /\ filteredData = SomeReading
    /\ series \in SeriesInputs
    /\ idx = 0
    /\ hourlyBuckets = NoBuckets
    /\ bucketedRecords = << >>
    /\ payload = NoPayload

\* One pass of the loop over results.RecordFields.
TakeRecord ==
    /\ pc = "historical"
    /\ idx < Len(series)
    /\ idx' = idx + 1
    /\ hourlyBuckets' = Accumulate(hourlyBuckets, series[idx + 1])
    /\ UNCHANGED << progVars, cycleObs, runObs, latestResp, filteredData, series,
                    bucketedRecords, payload >>

\* Mutant: Historical returns an error when it has no record to return.
HistoricalSorts_NoRecordsError ==
    /\ pc = "historical"
    /\ idx = Len(series)
    /\ \E recs \in Sorted(hourlyBuckets) :
         LET m == IF Len(recs) = 0
                    THEN [ kind |-> "source", text |-> << "n", "o", " ", "d", "a", "t", "a" >> ]
                    ELSE Encode(Finite(recs))
         IN
         /\ bucketedRecords' = recs
         /\ histRes' = IF Len(recs) = 0 THEN "fail" ELSE "ok"
         /\ IF m = Nil
              THEN /\ pc' = "post"
                   /\ posts' = posts + 1
                   /\ payload' = WeatherData(filteredData, recs)
                   /\ UNCHANGED << err, sinceReturn, inFlight >>
              ELSE /\ Return(m)
                   /\ UNCHANGED << posts, payload >>
    /\ UNCHANGED << interval, mac, asynctimerchan, sinceRequest, cycle, ret, untilTick, tickPending,
                    sigPending, sleepLeft, reqs, latestRes, postResp, saw429, handled,
                    cyclesStarted, ticksConsumed, sigWhen, sinceLatestRet, latestResp,
                    filteredData, series, idx, hourlyBuckets >>

\* The loop is over: Historical makes the records, sorts them and returns;
\* Data returns; Update encodes the payload and sends the POST.
HistoricalSorts ==
    /\ pc = "historical"
    /\ idx = Len(series)
    /\ \E recs \in Sorted(hourlyBuckets) :
         LET m == Encode(Finite(recs)) IN
         /\ bucketedRecords' = recs
         /\ histRes' = "ok"
         /\ IF m = Nil
              THEN /\ pc' = "post"
                   /\ posts' = posts + 1
                   /\ payload' = WeatherData(filteredData, recs)
                   /\ UNCHANGED << err, sinceReturn, inFlight >>
              ELSE /\ Return(m)
                   /\ UNCHANGED << posts, payload >>
    /\ UNCHANGED << interval, mac, asynctimerchan, sinceRequest, cycle, ret, untilTick, tickPending,
                    sigPending, sleepLeft, reqs, latestRes, postResp, saw429, handled,
                    cyclesStarted, ticksConsumed, sigWhen, sinceLatestRet, latestResp,
                    filteredData, series, idx, hourlyBuckets >>

HistoricalNext ==
    \/ TakeRecord
    \/ HistoricalSorts

HistoricalSpec == HistoricalInit /\ [][HistoricalNext]_vars

\* ------------------------------------------------------------------ claims

\* C1 (as claimed): no failure of any cycle, the first one included, stops the
\* scheduler: Run returns only after a signal, without an error, and the
\* process exits with code 0.
C1_NoFailureStopsScheduler ==
    pc = "stopped" => (ret = "nil" /\ sigDelivered /\ ExitCode = 0)

\* C1 (amended): Run returns either after a signal, without an error (exit
\* code 0), or because the first Update failed with an error that is not
\* rate-limited, which it returns (exit code 1); no failure of an Update made
\* on a tick and no rate-limited failure of the first Update makes Run return.
C1_OnlyFirstFailureStops ==
    /\ pc /= "stopped" => ret = "none"
    /\ pc = "stopped" =>
         \/ ret = "nil" /\ sigDelivered /\ ExitCode = 0 /\ err = Nil
         \/ /\ ret = "err"
            /\ ExitCode = 1
            /\ cycle = "startup"
            /\ ticksConsumed = 0
            /\ handled = "fatal"
            /\ err /= Nil
            /\ ~isRateLimited(err)
    /\ handled \in { "error", "ratelimited" } => ret /= "err"

\* A ticked cycle failed with an ordinary error, Run went on and returned nil
\* on a later signal.
C1_Witness ==
    pc = "stopped" /\ ret = "nil" /\ cycle = "ticked" /\ handled = "error"

\* C2 (as claimed): after a cycle that failed rate-limited, the first cycle or a
\* ticked one, the next cycle starts no earlier than one full interval after
\* the failure.
C2_RateLimitDefersFullInterval ==
    [][ (pc = "select" /\ pc' = "latest" /\ handled = "ratelimited")
          => sinceReturn >= interval ]_vars

\* C3 (as claimed): Run takes a result as rate-limited exactly when the source
\* or the webhook answered with status 429 in that cycle.
C3_RateLimitedIffStatus429 ==
    [][ (pc = "returned" /\ pc' /= "returned")
          => ((handled' = "ratelimited") <=> saw429) ]_vars

\* C4: in every cycle the source is asked for the latest data first and for
\* the historical data second, at most once each, and the historical request
\* is sent only when Latest has succeeded and at least a second has passed
\* since it returned.
C4_HistoricalAfterLatestAndPause ==
    /\ [](reqs \in { << >>, << "latest" >>, << "latest", "historical" >> })
    /\ [][ (reqs' /= reqs /\ Len(reqs') > 0 /\ reqs'[Len(reqs')] = "historical")
             => (reqs = << "latest" >> /\ latestRes = "ok" /\ sinceLatestRet >= Second) ]_vars

\* The historical request has been sent, a full second after Latest returned.
C4_Witness ==
    pc = "historical" /\ reqs = << "latest", "historical" >> /\ sinceLatestRet = Second

\* C5: a cycle whose latest or historical fetch failed has returned an error
\* without a POST, and one whose latest fetch failed has sent no historical
\* request.
C5_NoPostAfterFailedFetch ==
    /\ latestRes = "fail" => (reqs = << "latest" >> /\ histRes = "none" /\ posts = 0)
    /\ histRes = "fail" => posts = 0
    /\ (latestRes = "fail" \/ histRes = "fail") => (pc = "returned" /\ err /= Nil)

\* The source listed devices, none of them the configured one, and the cycle
\* returned without a historical request and without a POST.
C5_Witness ==
    /\ pc = "returned"
    /\ err = NoDeviceError(mac)
    /\ latestRes = "fail"
    /\ posts = 0

\* C6: a cycle sends at most one POST, only after both fetches succeeded, and
\* it returns nil exactly when it sent one POST that was answered with a
\* status from 200 to 299.
C6_OnePostAndSuccessIff2xx ==
    /\ posts <= 1
    /\ posts = 1 => (latestRes = "ok" /\ histRes = "ok")
    /\ postResp /= NoResp => posts = 1
    /\ pc = "returned" =>
         ((err = Nil) <=> (posts = 1 /\ postResp.ok /\ postResp.code \in 200..299))

\* A cycle succeeded on a POST answered with status 299.
C6_Witness ==
    pc = "returned" /\ err = Nil /\ posts = 1 /\ postResp.code = 299

\* C7: Update returns a webhook error exactly when the POST's transport failed
\* or its answer's status is below 200 or at least 300; for such a status the
\* error's text is the fixed words, the status in decimal, and the first bytes
\* of the response body, at most 1024 of them.
C7_WebhookErrorAndExcerpt ==
    pc = "returned" =>
      /\ (err.kind = "webhook") <=>
           (posts = 1 /\ (~postResp.ok \/ postResp.code < 200 \/ postResp.code >= 300))
      /\ (posts = 1 /\ postResp.ok /\ postResp.code \notin 200..299) =>
           LET head == StatusText \o Itoa(postResp.code) \o ColonText
               excerpt == SubSeq(err.text, Len(head) + 1, Len(err.text))
           IN /\ Len(err.text) >= Len(head)
              /\ SubSeq(err.text, 1, Len(head)) = head
              /\ Len(excerpt) <= 1024
              /\ Len(excerpt) <= Len(postResp.body)
              /\ excerpt = SubSeq(postResp.body, 1, Len(excerpt))

\* The webhook answered 503 with a body longer than the excerpt.
C7_Witness ==
    /\ pc = "returned"
    /\ postResp.ok
    /\ postResp.code = 503
    /\ Len(postResp.body) > 1024
    /\ err.kind = "webhook"

\* C8: the first cycle starts before Run waits for a tick, and every later
\* cycle starts by receiving a tick: the cycles started are at most one more
\* than the ticks received, and the first cycle precedes the first receive.
C8_CyclesAtMostOnePlusTicks ==
    /\ cyclesStarted <= 1 + ticksConsumed
    /\ pc = "init" => (cyclesStarted = 0 /\ ticksConsumed = 0)
    /\ pc /= "init" => cyclesStarted >= 1
    /\ ticksConsumed >= 1 => cyclesStarted >= 2
    /\ (cycle = "ticked") => ticksConsumed >= 1

\* The second cycle runs, started by the first tick received.
C8_Witness ==
    pc = "latest" /\ cycle = "ticked" /\ cyclesStarted = 2 /\ ticksConsumed = 1

\* C9: while Update runs, a signal in sigCh stays there and the cycle takes the
\* steps it would take without it (it ends only on a failed fetch, a failed
\* encoding or the POST's answer); once Run has received the signal it has
\* returned, and no cycle starts after that.
C9_SignalDoesNotInterruptCycle ==
    /\ []((sigDelivered /\ ~sigPending) => pc = "stopped")
    /\ [][ (pc \in CyclePcs /\ sigPending) =>
             /\ sigPending'
             /\ pc' \in CyclePcs \cup { "returned" }
             /\ pc' = "returned" =>
                  \/ latestRes' = "fail"
                  \/ histRes' = "fail"
                  \/ err' = MarshalError
                  \/ postResp' /= NoResp ]_vars
    /\ [][ (sigDelivered /\ ~sigPending) =>
             (cyclesStarted' = cyclesStarted /\ reqs' = reqs /\ posts' = posts) ]_vars

\* A signal came while Update was running and the cycle still got its POST
\* answered.
C9_Witness ==
    /\ pc = "returned"
    /\ sigWhen = "cycle"
    /\ sigPending
    /\ reqs = << "latest", "historical" >>
    /\ postResp.ok

\* C10: a signal sent at any time after start stays in sigCh until Run
\* receives it, and Run returns eventually, provided every call returns and
\* select is fair to the signal case.
C10_SignalLeadsToStopped ==
    /\ [](sigDelivered => (sigPending \/ pc = "stopped"))
    /\ sigDelivered ~> (pc = "stopped")

\* A signal came during a ticked cycle that followed other ticked cycles, and
\* Run returned nil.
C10_Witness ==
    /\ pc = "stopped"
    /\ ret = "nil"
    /\ sigWhen = "cycle"
    /\ cycle = "ticked"
    /\ ticksConsumed >= 2

\* C11: at most one call of Update is in flight; a tick that fires while Update
\* runs starts no second call before the running one has returned: the running
\* call goes on with the requests it has issued, and no call is counted.
C11_AtMostOneCycleInFlight ==
    [][ /\ inFlight \in { 0, 1 } /\ inFlight' \in { 0, 1 }
        /\ (inFlight = 1) <=> (pc \in CyclePcs)
        /\ (pc \in CyclePcs /\ tickPending' /\ ~tickPending) =>
              /\ pc' = pc
              /\ reqs' = reqs
              /\ inFlight' = inFlight
              /\ cyclesStarted' = cyclesStarted ]_vars

\* C11 witness: a tick is waiting in ticker.C while an Update made on an
\* earlier tick is between its two requests to the source.
C11_Witness ==
    /\ pc = "sleep"
    /\ cycle = "ticked"
    /\ tickPending
    /\ inFlight = 1

\* ------------------------------------------- claims about Historical's data

Abs(a) == IF a < 0 THEN -a ELSE a

\* Historical has returned its records.
Aggregated == pc \in { "post", "returned" }

\* The places of the series that hold a sample with both values readable.
ValidPlaces == { i \in 1..Len(series) : series[i] \in ValidSamples }

\* The timestamp a readable sample carries, in milliseconds.
Timestamp(record) == timestampMs(record.dateutc).v

\* The UTC hour a millisecond lies in, counted from 1970-01-01 00:00, and the
\* millisecond that hour starts at.
UtcHour(ts) == ts \div MsPerHour

HourFloor(ts) == UtcHour(ts) * MsPerHour

\* The UTC hours of the readable samples of the series.
ValidHours == { UtcHour(Timestamp(series[i])) : i \in ValidPlaces }

\* The sum, in tenths, of the temperatures of the readable samples of s.
RECURSIVE TempSum(_)
TempSum(s) ==
    IF Len(s) = 0 THEN 0
    ELSE TempSum(SubSeq(s, 1, Len(s) - 1))
         + (IF s[Len(s)] \in ValidSamples THEN tempf(s[Len(s)].tempf).v.t10 ELSE 0)

\* r is sum / n rounded to the nearest integer, a half going away from zero.
IsRoundedMean(r, sum, n) ==
    /\ 2 * Abs(sum - r * n) <= n
    /\ 2 * Abs(sum - r * n) = n => Abs(r * n) > Abs(sum)

\* The orders a series of n samples can come in.
Perms(n) == { p \in [ 1..n -> 1..n ] : \A i, j \in 1..n : i /= j => p[i] /= p[j] }

\* C12: the records Historical returns hold at most one record for each UTC
\* hour of the readable samples: no two records carry the same dateutc and
\* there are no more records than hours.
C12_OneRecordPerHour ==
    Aggregated =>
      /\ \A i, j \in 1..Len(bucketedRecords) :
            i /= j => bucketedRecords[i].dateutc /= bucketedRecords[j].dateutc
      /\ Len(bucketedRecords) <= Cardinality(ValidHours)

\* C13: whatever order the samples of the series come in, Historical returns
\* the same sequence of records.
C13_OrderIndependent ==
    Aggregated =>
      \A p \in Perms(Len(series)) :
        Sorted(Buckets([ i \in 1..Len(series) |-> series[p[i]] ])) = { bucketedRecords }

\* C14: the First of a bucket is the start of the UTC hour of each sample
\* that went into the bucket.
C14_FirstIsHourFloor ==
    \A i \in 1..idx :
      series[i] \in ValidSamples =>
        LET ts == Timestamp(series[i]) IN
        /\ hourKey(ts) \in DOMAIN hourlyBuckets
        /\ hourlyBuckets[hourKey(ts)].First = HourFloor(ts)

\* C15: the records Historical returns, which are the payload's historical
\* array, are sorted strictly ascending by dateutc.
C15_StrictlyAscending ==
    Aggregated =>
      /\ \A i \in 1..(Len(bucketedRecords) - 1) :
            bucketedRecords[i].dateutc < bucketedRecords[i + 1].dateutc
      /\ payload.sent => payload.historical = bucketedRecords

\* C16: when the readable samples of the series all lie in one UTC hour,
\* Historical returns one record, and its tempf is the mean of their
\* temperatures rounded to one decimal, a half going away from zero.
C16_SingleHourMean ==
    (Aggregated /\ Cardinality(ValidHours) = 1) =>
      /\ Len(bucketedRecords) = 1
      /\ (\A i \in ValidPlaces : tempf(series[i].tempf).v.kind = "finite") =>
            /\ bucketedRecords[1].tempf.kind = "finite"
            /\ IsRoundedMean(bucketedRecords[1].tempf.t10, TempSum(series),
                             Cardinality(ValidPlaces))

\* C17: a sample without tempf, without dateutc or with a value Historical
\* cannot read changes no bucket and makes none, and Historical returns, with
\* no error, what it returns for the series without such samples.
C17_MalformedSamplesDropped ==
    [][ /\ (pc = "historical" /\ idx' = idx + 1 /\ series[idx'] \in MalformedSamples) =>
              /\ hourlyBuckets' = hourlyBuckets
              /\ pc' = "historical"
              /\ err' = Nil
        /\ (pc = "historical" /\ pc' /= "historical") =>
              /\ histRes' = "ok"
              /\ bucketedRecords' \in
                    Sorted(Buckets(SelectSeq(series, LAMBDA r : r \in ValidSamples))) ]_vars

\* C17 witness: the loop has taken a sample whose temperature is no number,
\* in an hour that has no bucket.
C17_Witness ==
    /\ pc = "historical"
    /\ idx >= 1
    /\ series[idx] = Sample(StringValue(<< "x" >>), Float64Value(72000000))
    /\ hourKey(Timestamp(series[idx])) \notin DOMAIN hourlyBuckets

\* C20: a series that is empty or holds malformed samples only gives no
\* record and no error, and Update sends the payload with an empty
\* historical array.
C20_NothingReadableStillDelivers ==
    (Aggregated /\ \A i \in 1..Len(series) : series[i] \in MalformedSamples) =>
      /\ bucketedRecords = << >>
      /\ histRes = "ok"
      /\ err = Nil
      /\ pc = "post"
      /\ posts = 1
      /\ payload = WeatherData(filteredData, << >>)

\* C20 witness: the payload has been sent for a series of two or more
\* samples, all of them malformed.
C20_Witness ==
    /\ pc = "post"
    /\ payload.sent
    /\ Len(series) >= 2
    /\ \A i \in 1..Len(series) : series[i] \in MalformedSamples

\* ----------------------------------------------- claims about Latest's data

\* The fields a reading is made of.
ReadingFields == { "tempf", "feelsLike", "humidity", "dailyrainin", "dateutc" }

\* The devices of the answer whose MAC is the configured one.
SameMac == { i \in 1..Len(latestResp.devices) : latestResp.devices[i] = mac }

\* C18: when the source lists no device, or no device whose MAC is the
\* configured one, Latest returns a not-found error and no data; when it
\* returns data, every field of it comes from a device with that MAC.
C18_NotFoundUnlessSameMac ==
    (pc /= "latest" /\ latestResp.ok /\ latestResp.code = StatusOK) =>
      /\ Len(latestResp.devices) = 0 => err = ZeroDevicesError
      /\ SameMac = { } =>
            /\ pc = "returned"
            /\ err \in { ZeroDevicesError, NoDeviceError(mac) }
            /\ filteredData = NoData
      /\ err = Nil =>
            \E i \in SameMac :
              \A f \in DOMAIN filteredData :
                /\ f \in DOMAIN latestResp.lastData[i]
                /\ filteredData[f] = latestResp.lastData[i][f]

\* C18 witness: Latest has returned the not-found error although the source
\* listed a device whose MAC differs from the configured one only in case.
C18_Witness ==
    /\ pc = "returned"
    /\ err = NoDeviceError(mac)
    /\ \E i \in 1..Len(latestResp.devices) :
         /\ latestResp.devices[i] /= mac
         /\ [ k \in 1..Len(mac) |-> Lower(mac[k]) ] = latestResp.devices[i]

\* C19: the reading Latest returns holds the fields of a reading that the
\* first device with the configured MAC has, each with the device's value,
\* and nothing else.
C19_ReadingIsPresentFields ==
    (pc = "sleep" /\ latestRes = "ok") =>
      /\ SameMac /= { }
      /\ LET first == CHOOSE i \in SameMac : \A j \in SameMac : i <= j
             data == latestResp.lastData[first]
         IN /\ DOMAIN filteredData = ReadingFields \cap DOMAIN data
            /\ \A f \in DOMAIN filteredData : filteredData[f] = data[f]

\* C19 witness: Latest has returned a reading of two fields, made from a
\* device that also reports a field no reading has.
C19_Witness ==
    /\ pc = "sleep"
    /\ DOMAIN filteredData = { "tempf", "humidity" }
    /\ \E i \in SameMac : "winddir" \in DOMAIN latestResp.lastData[i]

\* ------------------------------------------ claims about accepted encodings

\* A value that carries a number: an integer, a float, or a text that spells
\* one (an integer for a timestamp).
IsNumber(v, integral) ==
    \/ v.type \in { "int", "int64", "float64" }
    \/ /\ v.type \in { "string", "json.Number" }
       /\ IF integral THEN ParseInt(v.text).ok ELSE ParseFloat(v.text).ok

\* A sample with both values present, the timestamp an int64, a float or a
\* numeric text and the temperature an integer, a float or a numeric text.
Acceptable(record) ==
    /\ "tempf" \in DOMAIN record
    /\ "dateutc" \in DOMAIN record
    /\ record.dateutc.type /= "int"
    /\ IsNumber(record.dateutc, TRUE)
    /\ IsNumber(record.tempf, FALSE)

\* C21: each pass of the loop over a sample with a numeric timestamp and a
\* numeric temperature counts the sample in the bucket of its UTC hour.
C21_NumericEncodingsAccepted ==
    [][ (pc = "historical" /\ idx' = idx + 1 /\ Acceptable(series[idx'])) =>
          LET h == UtcHour(Timestamp(series[idx']))
              before == IF h \in DOMAIN hourlyBuckets THEN hourlyBuckets[h].Count ELSE 0
          IN /\ h \in DOMAIN hourlyBuckets'
             /\ hourlyBuckets'[h].Count = before + 1 ]_vars

\* ------------------------------------------------ claims about the ticker

Accepted(record) ==
    /\ "tempf" \in DOMAIN record
    /\ "dateutc" \in DOMAIN record
    /\ timestampMs(record.dateutc).ok
    /\ tempf(record.tempf).ok

\* The places of the series the loop has passed that hold an accepted sample.
AcceptedPlaces == { i \in 1..idx : Accepted(series[i]) }

\* The Counts of the buckets of keys, added up.
RECURSIVE CountOver(_, _)
CountOver(buckets, keys) ==
    IF keys = {} THEN 0
    ELSE LET k == CHOOSE h \in keys : TRUE
         IN buckets[k].Count + CountOver(buckets, keys \ { k })

\* The Sums of the buckets of keys, added up.
RECURSIVE SumOver(_, _)
SumOver(buckets, keys) ==
    IF keys = {} THEN Float(0)
    ELSE LET k == CHOOSE h \in keys : TRUE
         IN FAdd(buckets[k].Sum, SumOver(buckets, keys \ { k }))

\* The temperatures of the samples at places, added up.
RECURSIVE TempsAt(_)
TempsAt(places) ==
    IF places = {} THEN Float(0)
    ELSE LET i == CHOOSE j \in places : TRUE
         IN FAdd(tempf(series[i].tempf).v, TempsAt(places \ { i }))

\* C23: after any number of passes of the loop the buckets hold the accepted
\* samples and nothing else: the Counts add up to the number of accepted
\* samples, the Sums add up to the sum of their temperatures, no bucket is
\* empty, and the accepted samples can be dealt out to the buckets, each to
\* one bucket, so that every bucket holds the Count and the Sum of its share.
C23_AggregationConservesSamples ==
    LET keys == DOMAIN hourlyBuckets IN
    /\ CountOver(hourlyBuckets, keys) = Cardinality(AcceptedPlaces)
    /\ SumOver(hourlyBuckets, keys) = TempsAt(AcceptedPlaces)
    /\ \A k \in keys : hourlyBuckets[k].Count >= 1
    /\ \E share \in [ AcceptedPlaces -> keys ] :
         \A k \in keys :
           LET mine == { i \in AcceptedPlaces : share[i] = k } IN
           /\ hourlyBuckets[k].Count = Cardinality(mine)
           /\ hourlyBuckets[k].Sum = TempsAt(mine)

\* C23 witness: the loop is over a series of three accepted samples that
\* lie in two buckets.
C23_Witness ==
    /\ pc = "historical"
    /\ idx = Len(series)
    /\ Cardinality(AcceptedPlaces) = 3
    /\ Cardinality(DOMAIN hourlyBuckets) = 2
    /\ \E k \in DOMAIN hourlyBuckets : hourlyBuckets[k].Count = 2

\* C24 (as claimed): ticker.C holds one tick at most: a cycle started from the
\* select takes the tick that is there and leaves none, so one tick stands for
\* all the intervals a cycle overran; and the tick that is in ticker.C when a
\* rate-limited cycle returns is dropped, the next cycle starting no earlier
\* than one interval after that return.
C24_TicksCoalesced ==
    [][ /\ (pc = "select" /\ pc' = "latest") => (tickPending /\ ~tickPending')
        /\ (pc = "returned" /\ pc' = "select" /\ handled' = "ratelimited") =>
              ~tickPending'
        /\ (pc = "select" /\ pc' = "latest" /\ handled = "ratelimited") =>
              sinceReturn >= interval ]_vars

\* ------------------------------------------- claims about the request rate

\* C25 (as claimed): every request to the source, the devices request of
\* Latest and the device-data request of Historical, is sent a second or more
\* after the request before it, the last request of one cycle and the first
\* of the next included.
C25_RequestsOneSecondApart ==
    [][ (Len(reqs') > 0 /\ reqs' /= reqs /\ cyclesStarted > 0) =>
          sinceRequest >= Second ]_vars

====
